---- MODULE Spec2Model ----
(***************************************************************************)
(* Model of src/reliability.py: the Monte Carlo reliability estimator      *)
(* (monte_carlo_reliability), the closed-form product                      *)
(* (analytical_reliability) and the order in which the script calls them.  *)
(*                                                                         *)
(* Numbers.  Probabilities and draws live on the grid of multiples of 1/K: *)
(* a failure probability p stands for p/K (p in 0..K, so 0/K = 0.0 and     *)
(* K/K = 1.0) and a draw d stands for d/K (d in 0..K-1, i.e. a value of    *)
(* [0, 1)).  Results are exact fractions [num, den], compared by cross     *)
(* multiplication; floating-point rounding is not modelled.                *)
(*                                                                         *)
(* Random source.  np.random.random() is a stream of draws fixed by the    *)
(* generator's state: `stream` is the prefix the call can consume and      *)
(* `pos` the number of draws consumed so far.                              *)
(***************************************************************************)
EXTENDS Integers, Sequences, FiniteSets

\* ---- bounds -------------------------------------------------------------
K == 3              \* grid resolution: probabilities p/K, draws d/K
MaxLen == 2         \* longest failure-probability vector
MaxSamples == 2     \* largest n_samples
MaxNeg == 1         \* n_samples ranges down to -MaxNeg
MaxDraws == 4       \* most draws one call may need: n_samples * len <= MaxDraws

VARIABLES failure_probs, n_samples, stream, pos, pc, i, j,
          successes, mission_success, mc_result, analytical_result

vars == <<failure_probs, n_samples, stream, pos, pc, i, j,
          successes, mission_success, mc_result, analytical_result>>

\* ---- values -------------------------------------------------------------
Probs == 0..K
Draws == 0..(K - 1)

NoResult == [kind |-> "none", num |-> 0, den |-> 1]
ZeroDivisionError == [kind |-> "ZeroDivisionError", num |-> 0, den |-> 0]
Value(n, d) == [kind |-> "value", num |-> n, den |-> d]

\* comparison of fractions with positive denominators
REq(a, b) == a.num * b.den = b.num * a.den
RLe(a, b) == a.num * b.den <= b.num * a.den
RLt(a, b) == a.num * b.den < b.num * a.den

\* vectors of length 0..MaxLen over the probability grid
Vectors == UNION {[1..n -> Probs] : n \in 0..MaxLen}

\* the draws one call can consume: at most one per (trial, subsystem)
StreamLen(fp, n) == IF n > 0 /\ Len(fp) > 0 THEN n * Len(fp) ELSE 1

\* ---- monte_carlo_reliability -------------------------------------------
\* variant of line 47 with `<=`
SubsystemFailsLe(random_draw, fail_prob) == random_draw <= fail_prob

\* line 47: `random_draw < fail_prob`
SubsystemFails(random_draw, fail_prob) == random_draw < fail_prob

\* line 56: `successes / n_samples`
Divide(s, n) == IF n = 0 THEN ZeroDivisionError ELSE Value(s, n)

Init ==
    /\ failure_probs \in Vectors
    /\ n_samples \in (0 - MaxNeg)..MaxSamples
    /\ n_samples * Len(failure_probs) <= MaxDraws
    /\ stream \in [1..StreamLen(failure_probs, n_samples) -> Draws]
    /\ pos = 0
    /\ pc = "for_i"
    /\ i = 0
    /\ j = 0
    /\ successes = 0
    /\ mission_success = TRUE
    /\ mc_result = NoResult
    /\ analytical_result = NoResult

\* line 37-39: the outer loop starts the next trial
ForTrial ==
    /\ pc = "for_i"
    /\ i < n_samples
    /\ mission_success' = TRUE
    /\ j' = 0
    /\ pc' = "for_sub"
    /\ UNCHANGED <<failure_probs, n_samples, stream, pos, i, successes,
                   mc_result, analytical_result>>

\* line 37: range(n_samples) is exhausted (at once when n_samples <= 0)
ForTrialExhausted ==
    /\ pc = "for_i"
    /\ ~(i < n_samples)
    /\ pc' = "return"
    /\ UNCHANGED <<failure_probs, n_samples, stream, pos, i, j, successes,
                   mission_success, mc_result, analytical_result>>

\* variant of line 48-49 without the break
DrawFailNoBreak ==
    /\ pc = "for_sub"
    /\ j < Len(failure_probs)
    /\ SubsystemFails(stream[pos + 1], failure_probs[j + 1])
    /\ pos' = pos + 1
    /\ j' = j + 1
    /\ mission_success' = FALSE
    /\ pc' = "for_sub"
    /\ UNCHANGED <<failure_probs, n_samples, stream, i, successes,
                   mc_result, analytical_result>>

\* line 42-49: one draw for the next subsystem; it fails and the loop breaks
DrawFail ==
    /\ pc = "for_sub"
    /\ j < Len(failure_probs)
    /\ SubsystemFails(stream[pos + 1], failure_probs[j + 1])
    /\ pos' = pos + 1
    /\ j' = j + 1
    /\ mission_success' = FALSE
    /\ pc' = "count"
    /\ UNCHANGED <<failure_probs, n_samples, stream, i, successes,
                   mc_result, analytical_result>>

\* variant with line 52-53 inside the inner loop
DrawOkCounting ==
    /\ pc = "for_sub"
    /\ j < Len(failure_probs)
    /\ ~SubsystemFails(stream[pos + 1], failure_probs[j + 1])
    /\ pos' = pos + 1
    /\ j' = j + 1
    /\ successes' = IF mission_success THEN successes + 1 ELSE successes
    /\ UNCHANGED <<failure_probs, n_samples, stream, pc, i,
                   mission_success, mc_result, analytical_result>>

\* line 42-47: one draw for the next subsystem; it works, the loop goes on
DrawOk ==
    /\ pc = "for_sub"
    /\ j < Len(failure_probs)
    /\ ~SubsystemFails(stream[pos + 1], failure_probs[j + 1])
    /\ pos' = pos + 1
    /\ j' = j + 1
    /\ UNCHANGED <<failure_probs, n_samples, stream, pc, i, successes,
                   mission_success, mc_result, analytical_result>>

\* line 42: every subsystem was examined
SubsExhausted ==
    /\ pc = "for_sub"
    /\ j = Len(failure_probs)
    /\ pc' = "count"
    /\ UNCHANGED <<failure_probs, n_samples, stream, pos, i, j, successes,
                   mission_success, mc_result, analytical_result>>

\* line 52-53: count the trial, back to the head of the outer loop
Count ==
    /\ pc = "count"
    /\ successes' = IF mission_success THEN successes + 1 ELSE successes
    /\ i' = i + 1
    /\ pc' = "for_i"
    /\ UNCHANGED <<failure_probs, n_samples, stream, pos, j,
                   mission_success, mc_result, analytical_result>>

\* line 56: the division yields a float
Return ==
    /\ pc = "return"
    /\ n_samples # 0
    /\ mc_result' = Divide(successes, n_samples)
    /\ pc' = "analytical"
    /\ UNCHANGED <<failure_probs, n_samples, stream, pos, i, j, successes,
                   mission_success, analytical_result>>

\* line 56: the division raises; the script ends with the exception
Raise ==
    /\ pc = "return"
    /\ n_samples = 0
    /\ mc_result' = Divide(successes, n_samples)
    /\ pc' = "raised"
    /\ UNCHANGED <<failure_probs, n_samples, stream, pos, i, j, successes,
                   mission_success, analytical_result>>

\* ---- analytical_reliability --------------------------------------------
\* variant of line 84 without the complement
prob_works_forgot(fail_prob) == [num |-> fail_prob, den |-> K]

\* line 84: prob_works = 1.0 - fail_prob
prob_works(fail_prob) == [num |-> K - fail_prob, den |-> K]

\* line 85: reliability *= prob_works
Times(a, b) == [num |-> a.num * b.num, den |-> a.den * b.den]

\* line 83-87: the loop from the k-th element on, then the return
RECURSIVE analytical_loop(_, _, _)
analytical_loop(fp, k, reliability) ==
    IF k > Len(fp) THEN reliability
    ELSE analytical_loop(fp, k + 1, Times(reliability, prob_works(fp[k])))

\* variants of line 80-87: starting from 0.0, skipping the first element
analytical_reliability_zero(fp) == analytical_loop(fp, 1, [num |-> 0, den |-> 1])
analytical_reliability_skip(fp) == analytical_loop(fp, 2, [num |-> 1, den |-> 1])

\* line 80-87
analytical_reliability(fp) == analytical_loop(fp, 1, [num |-> 1, den |-> 1])

\* line 114: the script computes the analytical solution of the same vector
Analytical ==
    /\ pc = "analytical"
    /\ analytical_result' =
          [kind |-> "value",
           num |-> analytical_reliability(failure_probs).num,
           den |-> analytical_reliability(failure_probs).den]
    /\ pc' = "done"
    /\ UNCHANGED <<failure_probs, n_samples, stream, pos, i, j, successes,
                   mission_success, mc_result>>

\* ---- the estimator as a function of per-(trial, subsystem) draws --------
\* line 39-53: one trial on the draws `row`, from the k-th subsystem on;
\* TRUE iff mission_success holds at line 52
RECURSIVE trial_from(_, _, _)
trial_from(fp, row, k) ==
    IF k > Len(fp) THEN TRUE
    ELSE IF SubsystemFails(row[k], fp[k]) THEN FALSE
    ELSE trial_from(fp, row, k + 1)

\* variant with the break outside the `if`: only one subsystem examined
trial_first_only(fp, row) ==
    IF Len(fp) = 0 THEN TRUE ELSE ~SubsystemFails(row[1], fp[1])

\* line 39-53: one whole trial
trial(fp, row) == trial_from(fp, row, 1)

\* line 37-56 with the draw of trial t, subsystem k read from rows[t][k]
RECURSIVE successes_after(_, _, _)
successes_after(fp, rows, t) ==
    IF t = 0 THEN 0
    ELSE successes_after(fp, rows, t - 1) + (IF trial(fp, rows[t]) THEN 1 ELSE 0)

monte_carlo_reliability(fp, n, rows) == Divide(successes_after(fp, rows, n), n)

Next ==
    \/ ForTrial
    \/ ForTrialExhausted
    \/ DrawFail
    \/ DrawOk
    \/ SubsExhausted
    \/ Count
    \/ Return
    \/ Raise
    \/ Analytical

Spec == Init /\ [][Next]_vars

TypeOK ==
    /\ failure_probs \in Vectors
    /\ n_samples \in (0 - MaxNeg)..MaxSamples
    /\ pos \in 0..Len(stream)
    /\ pc \in {"for_i", "for_sub", "count", "return", "analytical",
               "raised", "done"}
    /\ j \in 0..Len(failure_probs)
    /\ mission_success \in BOOLEAN

\* ---- vocabulary of the properties ---------------------------------------
Min(S) == CHOOSE x \in S : \A y \in S : x <= y

RECURSIVE KPow(_)
KPow(n) == IF n = 0 THEN 1 ELSE K * KPow(n - 1)

\* subsystems whose draw is strictly below their failure probability when a
\* trial starts after s draws of the stream
FailingAt(s) ==
    {k \in 1..Len(failure_probs) : stream[s + k] < failure_probs[k]}

\* draws a trial starting after s draws consumes: up to the first failure
Consumed(s) ==
    IF FailingAt(s) = {} THEN Len(failure_probs) ELSE Min(FailingAt(s))

\* stream position at which trial t (1-based) starts
RECURSIVE TrialStart(_)
TrialStart(t) ==
    IF t = 1 THEN 0 ELSE TrialStart(t - 1) + Consumed(TrialStart(t - 1))

\* no examined subsystem of trial t drew below its failure probability
TrialSucceeds(t) ==
    \A k \in 1..Consumed(TrialStart(t)) :
        ~(stream[TrialStart(t) + k] < failure_probs[k])

\* product over the subsystems in S of (1 - failure probability)
RECURSIVE ProductOver(_)
ProductOver(S) ==
    IF S = {} THEN [num |-> 1, den |-> 1]
    ELSE LET k == CHOOSE x \in S : TRUE
             rest == ProductOver(S \ {k})
         IN [num |-> (K - failure_probs[k]) * rest.num, den |-> K * rest.den]

AllZero == \A k \in 1..Len(failure_probs) : failure_probs[k] = 0
SomeOne == \E k \in 1..Len(failure_probs) : failure_probs[k] = K
AllZeroOrOne == \A k \in 1..Len(failure_probs) : failure_probs[k] \in {0, K}

\* the draws of the stream laid out one row per trial
Rows ==
    [t \in 1..n_samples |->
        [k \in 1..Len(failure_probs) |->
            stream[(t - 1) * Len(failure_probs) + k]]]

\* a trial that examines every subsystem, failed or not
RECURSIVE trial_all_from(_, _, _, _)
trial_all_from(fp, row, k, ok) ==
    IF k > Len(fp) THEN ok
    ELSE trial_all_from(fp, row, k + 1, ok /\ ~(row[k] < fp[k]))

RECURSIVE successes_all_after(_, _, _)
successes_all_after(fp, rows, t) ==
    IF t = 0 THEN 0
    ELSE successes_all_after(fp, rows, t - 1)
         + (IF trial_all_from(fp, rows[t], 1, TRUE) THEN 1 ELSE 0)

\* ---- properties ---------------------------------------------------------

\* C1: with n_samples >= 1 the value returned is successes / n_samples,
\* where successes is the number of trials in which no examined subsystem
\* drew strictly below its failure probability.
C1_ResultIsSuccessFraction ==
    (n_samples >= 1 /\ mc_result.kind # "none") =>
        mc_result = Value(Cardinality({t \in 1..n_samples : TrialSucceeds(t)}),
                          n_samples)

\* a returned fraction strictly between 0 and 1 with a successful trial in
\* which a draw was equal to the failure probability
C1_Witness ==
    /\ n_samples >= 2
    /\ mc_result.kind = "value"
    /\ 0 < mc_result.num /\ mc_result.num < mc_result.den
    /\ \E t \in 1..n_samples :
          /\ TrialSucceeds(t)
          /\ \E k \in 1..Len(failure_probs) :
                stream[TrialStart(t) + k] = failure_probs[k]

\* C2: with n_samples <= 0 the call never returns a numeric value (it ends
\* in the division error).
C2_NonPositiveNeverReturnsValue ==
    n_samples <= 0 => mc_result.kind # "value"

\* C3: with n_samples >= 1, 0 <= successes <= trials completed <= n_samples
\* in every state, and the returned fraction lies in [0, 1].
C3_SuccessesBounded ==
    n_samples >= 1 =>
        /\ 0 <= successes /\ successes <= i /\ i <= n_samples
        /\ mc_result.kind # "ZeroDivisionError"
        /\ mc_result.kind = "value" =>
              /\ 0 <= mc_result.num /\ mc_result.num <= mc_result.den
              /\ mc_result.den >= 1

\* a returned fraction with some but not all trials successful
C3_Witness ==
    /\ n_samples >= 2
    /\ pc = "done"
    /\ mc_result.kind = "value"
    /\ mc_result.num = 1
    /\ \E k \in 1..Len(failure_probs) : failure_probs[k] \in 1..(K - 1)

\* C4: the number of draw assignments on the grid for which one trial
\* succeeds, out of K^len, equals the analytical reliability.
C4_TrialProbabilityIsAnalytical ==
    pc = "done" =>
        Cardinality({row \in [1..Len(failure_probs) -> Draws] :
                        trial(failure_probs, row)}) * analytical_result.den
        = analytical_result.num * KPow(Len(failure_probs))

\* a vector of two or more probabilities strictly between 0 and 1
C4_Witness ==
    /\ pc = "done"
    /\ Len(failure_probs) >= 2
    /\ \A k \in 1..Len(failure_probs) : failure_probs[k] \in 1..(K - 1)
    /\ \E k \in 1..Len(failure_probs) : failure_probs[k] # failure_probs[1]

\* C5: analytical_reliability returns the product over all subsystems of
\* (1 - failure probability), a value in [0, 1].
C5_AnalyticalIsProduct ==
    pc = "done" =>
        /\ analytical_result.kind = "value"
        /\ REq(analytical_result, ProductOver(1..Len(failure_probs)))
        /\ 0 <= analytical_result.num
        /\ analytical_result.num <= analytical_result.den

\* the product of two or more factors, strictly between 0 and 1
C5_Witness ==
    /\ pc = "done"
    /\ Len(failure_probs) >= 2
    /\ 0 < analytical_result.num
    /\ analytical_result.num < analytical_result.den
    /\ failure_probs[1] # failure_probs[2]

\* C6 (as stated): raising one failure probability, the others fixed,
\* strictly decreases the analytical reliability.
C6_StrictlyDecreasing ==
    pc = "done" =>
        \A k \in 1..Len(failure_probs) :
            \A q \in Probs :
                q > failure_probs[k] =>
                    RLt(analytical_reliability([failure_probs EXCEPT ![k] = q]),
                        analytical_result)

\* C6 (amended): raising one failure probability never increases the
\* analytical reliability, and strictly decreases it when every other
\* failure probability is below 1.
C6_DecreasingUnlessZero ==
    pc = "done" =>
        \A k \in 1..Len(failure_probs) :
            \A q \in Probs :
                q > failure_probs[k] =>
                    /\ RLe(analytical_reliability([failure_probs EXCEPT ![k] = q]),
                           analytical_result)
                    /\ (\A m \in 1..Len(failure_probs) :
                            m # k => failure_probs[m] < K)
                       => RLt(analytical_reliability([failure_probs EXCEPT ![k] = q]),
                              analytical_result)

\* a computed reliability of a vector with room to raise an element, all
\* others being below 1
C6_Witness ==
    /\ pc = "done"
    /\ Len(failure_probs) >= 2
    /\ \A k \in 1..Len(failure_probs) : failure_probs[k] \in 1..(K - 1)
    /\ \E k \in 1..Len(failure_probs) : failure_probs[k] + 1 < K

\* C7: for the empty vector the analytical value is 1.0 and, with
\* n_samples >= 1, the estimate is 1.0, with no error and no draw consumed.
C7_EmptyVector ==
    failure_probs = << >> =>
        /\ pos = 0
        /\ n_samples >= 1 => mc_result.kind # "ZeroDivisionError"
        /\ (n_samples >= 1 /\ mc_result.kind = "value") =>
              mc_result.num = mc_result.den
        /\ pc = "done" =>
              /\ analytical_result.kind = "value"
              /\ analytical_result.num = analytical_result.den

\* both functions returned for the empty vector after several trials
C7_Witness ==
    /\ failure_probs = << >>
    /\ n_samples >= 2
    /\ pc = "done"
    /\ mc_result.kind = "value"

\* C8: if every failure probability is 0 both functions return 1.0; if some
\* failure probability is 1 the analytical value is 0.0, and so is the
\* estimate when all entries are 0 or 1.
C8_DegenerateVectors ==
    (pc = "done" /\ n_samples >= 1) =>
        /\ AllZero =>
              /\ analytical_result.num = analytical_result.den
              /\ mc_result.num = mc_result.den
        /\ SomeOne => analytical_result.num = 0
        /\ (SomeOne /\ AllZeroOrOne) => mc_result.num = 0

\* both functions returned for a vector mixing 0 and 1
C8_Witness ==
    /\ pc = "done"
    /\ n_samples >= 2
    /\ SomeOne /\ AllZeroOrOne
    /\ \E k \in 1..Len(failure_probs) : failure_probs[k] = 0
    /\ mc_result.num = 0

\* C9: a trial draws once per examined subsystem, in vector order, stops at
\* the first draw strictly below its failure probability, and the next
\* trial starts at the following stream position.
C9_DrawsConsumed ==
    n_samples >= 1 =>
        /\ pc = "for_i" => pos = TrialStart(i + 1)
        /\ pc = "for_sub" =>
              /\ pos = TrialStart(i + 1) + j
              /\ j <= Consumed(TrialStart(i + 1))
              /\ (mission_success \/ j = 0)
              /\ \A k \in 1..j : ~(stream[TrialStart(i + 1) + k] < failure_probs[k])
        /\ pc = "count" =>
              /\ j = Consumed(TrialStart(i + 1))
              /\ pos = TrialStart(i + 1) + j
              /\ mission_success = (FailingAt(TrialStart(i + 1)) = {})

\* a later trial that stopped at a failure before the end of the vector,
\* after an earlier trial that also stopped early
C9_Witness ==
    /\ pc = "count"
    /\ i >= 1
    /\ ~mission_success
    /\ j < Len(failure_probs)
    /\ pos < i * Len(failure_probs) + j

\* C10: with one fixed draw per (trial, subsystem) pair, the estimator with
\* the break returns what a variant examining every subsystem returns.
C10_BreakIsUnobservable ==
    n_samples >= 1 =>
        monte_carlo_reliability(failure_probs, n_samples, Rows)
        = Value(successes_all_after(failure_probs, Rows, n_samples), n_samples)

\* after the call returned: a row whose first subsystem fails while a later
\* one would not, next to a row that fails only at a later subsystem
C10_Witness ==
    /\ pc = "done"
    /\ n_samples >= 2
    /\ Len(failure_probs) >= 2
    /\ \E t \in 1..n_samples :
          /\ Rows[t][1] < failure_probs[1]
          /\ ~(Rows[t][2] < failure_probs[2])
    /\ \E t \in 1..n_samples :
          /\ ~(Rows[t][1] < failure_probs[1])
          /\ Rows[t][2] < failure_probs[2]
====
